---- MODULE Spec2Model ----
(***************************************************************************)
(* A model of src/src/tree.rs: RbxTree, a forest of RootedRbxInstance      *)
(* values indexed by RbxId, with insert_instance, remove_instance,         *)
(* transplant and the Descendants iterator.                                *)
(*                                                                         *)
(* Two RbxTree values, F and G, are owned by a caller that applies the     *)
(* public operations to them in any order.  A panic (a failed unwrap or    *)
(* expect) stops the program: status becomes "panicked" and the trees keep *)
(* the values they had when the panic unwound.                             *)
(***************************************************************************)
EXTENDS Integers, Sequences, FiniteSets

VARIABLES
    trees,    \* the caller's two RbxTree values, by name
    next_id,  \* the next value RbxId::new() hands out
    iter,     \* the caller's Descendants iterator, when one is alive
    status,   \* "running" or "panicked"
    op,       \* the last call made: its name, arguments and result
    transplants,  \* the number of transplant calls made
    pre       \* the value of trees before the last call

vars == <<trees, next_id, iter, status, op, pre, transplants>>

\* ---------------------------------------------------------------- bounds
MaxIds == 3          \* insert_instance calls made by the caller of Spec
MaxTransplants == 1  \* transplant calls made by the caller of Spec
MaxWalkIds == 4      \* insert_instance calls made by the caller of SpecWalk
MaxBuildIds == 4     \* insert_instance calls made by the caller of SpecBuild

\* RbxInstance payloads.  The tree never reads a payload, so which one a call
\* carries decides nothing; the caller alternates between two values, so that
\* every instance differs in payload from the one created before and after it.
Payloads == {"Folder", "Part"}
PayloadOfCall(n) == IF n % 2 = 1 THEN "Folder" ELSE "Part"
TreeNames == {"F", "G"}
OtherTree(t) == IF t = "F" THEN "G" ELSE "F"

\* Option<RbxId>: None is the empty set, Some(p) the singleton {p}.
None == {}
Some(p) == {p}
Unwrap(o) == CHOOSE p \in o : TRUE

\* ------------------------------------------------------- maps and vectors
EmptyMap == [k \in {} |-> {}]
MapInsert(m, k, v) == [x \in (DOMAIN m) \cup {k} |-> IF x = k THEN v ELSE m[x]]
MapRemove(m, k) == [x \in (DOMAIN m) \ {k} |-> m[x]]

Last(s) == s[Len(s)]
Front(s) == SubSeq(s, 1, Len(s) - 1)
Range(s) == {s[i] : i \in 1..Len(s)}
\* Vec::remove(index): the elements after index shift left by one.
VecRemove(s, index) == SubSeq(s, 1, index - 1) \o SubSeq(s, index + 1, Len(s))
\* iter().position(|&id| id == x): the first index holding x.
Position(s, x) == CHOOSE i \in 1..Len(s) : s[i] = x /\ \A j \in 1..(i - 1) : s[j] # x

\* ------------------------------------------------------------ RbxTree::new
NewTree == [instances |-> EmptyMap, root_ids |-> {}]

\* RootedRbxInstance::new(instance, parent), with the id RbxId::new() returned
NewRootedInstance(instance, id, parent) ==
    [instance |-> instance, id |-> id, parent |-> parent, children |-> <<>>]

\* ------------------------------------------- insert_instance_internal
\* insert_instance_internal with the new id put first in the parent's
\* children instead of last.
InsertInstanceInternalAtFront(self, instance) ==
    IF instance.parent # None
    THEN LET parent_id == Unwrap(instance.parent) IN
         IF parent_id \notin DOMAIN self.instances
         THEN [ok |-> FALSE, tree |-> self]
         ELSE LET pushed == [self.instances EXCEPT
                               ![parent_id].children = <<instance.id>> \o @]
              IN [ok |-> TRUE,
                  tree |-> [instances |-> MapInsert(pushed, instance.id, instance),
                            root_ids |-> self.root_ids]]
    ELSE [ok |-> TRUE,
          tree |-> [instances |-> MapInsert(self.instances, instance.id, instance),
                    root_ids |-> self.root_ids \cup {instance.id}]]

\* insert_instance_internal that puts the new id in root_ids whether or not
\* the instance has a parent.
InsertInstanceInternalAlwaysRoot(self, instance) ==
    IF instance.parent # None
    THEN LET parent_id == Unwrap(instance.parent) IN
         IF parent_id \notin DOMAIN self.instances
         THEN [ok |-> FALSE, tree |-> self]
         ELSE LET pushed == [self.instances EXCEPT
                               ![parent_id].children = Append(@, instance.id)]
              IN [ok |-> TRUE,
                  tree |-> [instances |-> MapInsert(pushed, instance.id, instance),
                            root_ids |-> self.root_ids \cup {instance.id}]]
    ELSE [ok |-> TRUE,
          tree |-> [instances |-> MapInsert(self.instances, instance.id, instance),
                    root_ids |-> self.root_ids \cup {instance.id}]]

\* insert_instance_internal that stores the instance in the map before it
\* looks the parent up: the panic leaves the instance behind.
InsertInstanceInternalInsertsFirst(self, instance) ==
    LET stored == [self EXCEPT !.instances = MapInsert(@, instance.id, instance)] IN
    IF instance.parent # None
    THEN LET parent_id == Unwrap(instance.parent) IN
         IF parent_id \notin DOMAIN self.instances
         THEN [ok |-> FALSE, tree |-> stored]
         ELSE [ok |-> TRUE,
               tree |-> [stored EXCEPT
                           !.instances[parent_id].children = Append(@, instance.id)]]
    ELSE [ok |-> TRUE, tree |-> [stored EXCEPT !.root_ids = @ \cup {instance.id}]]

\* Returns ok = FALSE when the expect on the parent lookup panics; the tree is
\* then as it was.
InsertInstanceInternal(self, instance) ==
    IF instance.parent # None
    THEN LET parent_id == Unwrap(instance.parent) IN
         IF parent_id \notin DOMAIN self.instances
         THEN [ok |-> FALSE, tree |-> self]
         ELSE LET pushed == [self.instances EXCEPT
                               ![parent_id].children = Append(@, instance.id)]
              IN [ok |-> TRUE,
                  tree |-> [instances |-> MapInsert(pushed, instance.id, instance),
                            root_ids |-> self.root_ids]]
    ELSE [ok |-> TRUE,
          tree |-> [instances |-> MapInsert(self.instances, instance.id, instance),
                    root_ids |-> self.root_ids \cup {instance.id}]]

\* The result r of the rest of a work loop, with the run of the loop body
\* before it counted in: iterations is the number of times the body ran.
OneMore(r) == [r EXCEPT !.iterations = @ + 1]

\* ------------------------------------------------------------- transplant
\* The children pushed on to_visit by the for loop over instance.children,
\* each paired with Some(id) as its new parent.
ChildVisits(children, id) == [i \in 1..Len(children) |-> <<children[i], Some(id)>>]

\* One run of the loop body per recursion.  The instance is taken out of the
\* source tree, its parent is set and its children are cleared, and only
\* then is the (now cleared) child list walked to extend to_visit.
RECURSIVE TransplantLoop(_, _, _)
TransplantLoop(self, source_tree, to_visit) ==
    IF to_visit = <<>>
    THEN [ok |-> TRUE, self |-> self, source |-> source_tree, iterations |-> 0]
    ELSE LET id == Last(to_visit)[1]
             parent_id == Last(to_visit)[2]
             popped == Front(to_visit)
         IN IF id \notin DOMAIN source_tree.instances
            THEN [ok |-> FALSE, self |-> self, source |-> source_tree,
                  iterations |-> 1]
            ELSE LET removed == source_tree.instances[id]
                     source1 == [source_tree EXCEPT
                                   !.instances = MapRemove(@, id)]
                     reparented == [removed EXCEPT !.parent = parent_id]
                     instance == [reparented EXCEPT !.children = <<>>]
                     pushed == popped \o ChildVisits(instance.children, id)
                     r == InsertInstanceInternal(self, instance)
                 IN IF r.ok
                    THEN OneMore(TransplantLoop(r.tree, source1, pushed))
                    ELSE [ok |-> FALSE, self |-> self, source |-> source1,
                          iterations |-> 1]

\* transplant that makes source_id a root whatever new_parent_id is.
TransplantAsRoot(self, source_tree, source_id, new_parent_id) ==
    TransplantLoop(self, source_tree, << <<source_id, None>> >>)

Transplant(self, source_tree, source_id, new_parent_id) ==
    TransplantLoop(self, source_tree, << <<source_id, new_parent_id>> >>)

\* -------------------------------------------------------- remove_instance
\* The loop of remove_instance with the children of each instance cleared
\* once they are on ids_to_visit, as transplant does.
RECURSIVE RemoveLoopClearsChildren(_, _, _)
RemoveLoopClearsChildren(instances, ids_to_visit, new_tree_instances) ==
    IF ids_to_visit = <<>>
    THEN [instances |-> instances, new_tree_instances |-> new_tree_instances,
          iterations |-> 0]
    ELSE LET id == Last(ids_to_visit)
             popped == Front(ids_to_visit)
         IN IF id \in DOMAIN instances
            THEN OneMore(RemoveLoopClearsChildren(
                     MapRemove(instances, id),
                     popped \o instances[id].children,
                     MapInsert(new_tree_instances, id,
                               [instances[id] EXCEPT !.children = <<>>])))
            ELSE OneMore(RemoveLoopClearsChildren(instances, popped,
                                                  new_tree_instances))

\* The loop of remove_instance without the extend of ids_to_visit: it moves
\* root_id alone.
RECURSIVE RemoveLoopRootOnly(_, _, _)
RemoveLoopRootOnly(instances, ids_to_visit, new_tree_instances) ==
    IF ids_to_visit = <<>>
    THEN [instances |-> instances, new_tree_instances |-> new_tree_instances,
          iterations |-> 0]
    ELSE LET id == Last(ids_to_visit)
             popped == Front(ids_to_visit)
         IN IF id \in DOMAIN instances
            THEN OneMore(RemoveLoopRootOnly(
                     MapRemove(instances, id), popped,
                     MapInsert(new_tree_instances, id, instances[id])))
            ELSE OneMore(RemoveLoopRootOnly(instances, popped, new_tree_instances))

\* The loop that moves root_id and what its child lists reach out of
\* self.instances into new_tree_instances.
RECURSIVE RemoveLoop(_, _, _)
RemoveLoop(instances, ids_to_visit, new_tree_instances) ==
    IF ids_to_visit = <<>>
    THEN [instances |-> instances, new_tree_instances |-> new_tree_instances,
          iterations |-> 0]
    ELSE LET id == Last(ids_to_visit)
             popped == Front(ids_to_visit)
         IN IF id \in DOMAIN instances
            THEN OneMore(RemoveLoop(MapRemove(instances, id),
                                    popped \o instances[id].children,
                                    MapInsert(new_tree_instances, id, instances[id])))
            ELSE OneMore(RemoveLoop(instances, popped, new_tree_instances))

\* Vec::swap_remove(index): the last element takes the place of the one
\* removed.
VecSwapRemove(seq, index) ==
    IF index = Len(seq) THEN Front(seq)
    ELSE [Front(seq) EXCEPT ![index] = Last(seq)]

\* remove_instance once root_id is known to be present, with swap_remove(index)
\* on the parent's children in place of remove(index).
RemovePresentSwapRemove(self, root_id) ==
    LET parent_id == self.instances[root_id].parent IN
    IF /\ parent_id # None
       /\ \/ Unwrap(parent_id) \notin DOMAIN self.instances
          \/ root_id \notin Range(self.instances[Unwrap(parent_id)].children)
    THEN [result |-> "panic", self |-> self, removed |-> NewTree, iterations |-> 0]
    ELSE LET unlinked ==
               IF parent_id # None
               THEN [self EXCEPT
                       !.instances[Unwrap(parent_id)].children =
                           VecSwapRemove(@, Position(@, root_id))]
               ELSE [self EXCEPT !.root_ids = @ \ {root_id}]
             moved == RemoveLoop(unlinked.instances, <<root_id>>, EmptyMap)
         IN [result |-> "Some",
             self |-> [unlinked EXCEPT !.instances = moved.instances],
             removed |-> [instances |-> moved.new_tree_instances,
                          root_ids |-> {root_id}],
             iterations |-> moved.iterations]

\* remove_instance once root_id is known to be present: the unlinking from
\* the parent's children or from root_ids, the loop and the returned tree.
\* result is "panic" when the unwrap on the parent, or on root_id's position
\* in the parent's children, fails; nothing has been changed by then.
RemovePresent(self, root_id) ==
    LET parent_id == self.instances[root_id].parent IN
    IF /\ parent_id # None
       /\ \/ Unwrap(parent_id) \notin DOMAIN self.instances
          \/ root_id \notin Range(self.instances[Unwrap(parent_id)].children)
    THEN [result |-> "panic", self |-> self, removed |-> NewTree, iterations |-> 0]
    ELSE LET unlinked ==
               IF parent_id # None
               THEN [self EXCEPT
                       !.instances[Unwrap(parent_id)].children =
                           VecRemove(@, Position(@, root_id))]
               ELSE [self EXCEPT !.root_ids = @ \ {root_id}]
             moved == RemoveLoop(unlinked.instances, <<root_id>>, EmptyMap)
         IN [result |-> "Some",
             self |-> [unlinked EXCEPT !.instances = moved.instances],
             removed |-> [instances |-> moved.new_tree_instances,
                          root_ids |-> {root_id}],
             iterations |-> moved.iterations]

\* remove_instance without the early return for an absent root_id: it goes on
\* as for a root and returns an empty tree.
RemoveInstanceNoEarlyReturn(self, root_id) ==
    IF root_id \notin DOMAIN self.instances
    THEN [result |-> "Some",
          self |-> [self EXCEPT !.root_ids = @ \ {root_id}],
          removed |-> [instances |-> EmptyMap, root_ids |-> {root_id}],
          iterations |-> 0]
    ELSE RemovePresent(self, root_id)

\* result is "None" (root_id absent: self is as it was), "Some" (removed is
\* the returned tree) or "panic".
RemoveInstance(self, root_id) ==
    IF root_id \notin DOMAIN self.instances
    THEN [result |-> "None", self |-> self, removed |-> NewTree, iterations |-> 0]
    ELSE RemovePresent(self, root_id)

\* ------------------------------------------------------ Descendants::next
\* next that returns the instance without pushing its children.
RECURSIVE DescendantsNextNoPush(_, _)
DescendantsNextNoPush(tree, ids_to_visit) ==
    IF ids_to_visit = <<>>
    THEN [item |-> None, ids_to_visit |-> ids_to_visit]
    ELSE LET id == Last(ids_to_visit)
             popped == Front(ids_to_visit)
         IN IF id \in DOMAIN tree.instances
            THEN [item |-> Some(id), ids_to_visit |-> popped]
            ELSE DescendantsNextNoPush(tree, popped)

\* next that takes the oldest id of ids_to_visit (remove(0)) instead of the
\* newest (pop): a queue, not a stack.
RECURSIVE DescendantsNextFifo(_, _)
DescendantsNextFifo(tree, ids_to_visit) ==
    IF ids_to_visit = <<>>
    THEN [item |-> None, ids_to_visit |-> ids_to_visit]
    ELSE LET id == Head(ids_to_visit)
             popped == Tail(ids_to_visit)
         IN IF id \in DOMAIN tree.instances
            THEN [item |-> Some(id),
                  ids_to_visit |-> popped \o tree.instances[id].children]
            ELSE DescendantsNextFifo(tree, popped)

\* next that gives up at the first id that is not in the tree (return None
\* where the code has continue).
DescendantsNextStopsAtUnresolved(tree, ids_to_visit) ==
    IF ids_to_visit = <<>>
    THEN [item |-> None, ids_to_visit |-> ids_to_visit]
    ELSE LET id == Last(ids_to_visit)
             popped == Front(ids_to_visit)
         IN IF id \in DOMAIN tree.instances
            THEN [item |-> Some(id),
                  ids_to_visit |-> popped \o tree.instances[id].children]
            ELSE [item |-> None, ids_to_visit |-> popped]

\* next that reads the top of ids_to_visit (last()) without popping it.
DescendantsNextPeeks(tree, ids_to_visit) ==
    IF ids_to_visit = <<>>
    THEN [item |-> None, ids_to_visit |-> ids_to_visit]
    ELSE LET id == Last(ids_to_visit) IN
         IF id \in DOMAIN tree.instances
         THEN [item |-> Some(id),
               ids_to_visit |-> ids_to_visit \o tree.instances[id].children]
         ELSE [item |-> None, ids_to_visit |-> ids_to_visit]

\* item is Some(id of the instance returned) or None at the end.
RECURSIVE DescendantsNext(_, _)
DescendantsNext(tree, ids_to_visit) ==
    IF ids_to_visit = <<>>
    THEN [item |-> None, ids_to_visit |-> ids_to_visit]
    ELSE LET id == Last(ids_to_visit)
             popped == Front(ids_to_visit)
         IN IF id \in DOMAIN tree.instances
            THEN [item |-> Some(id),
                  ids_to_visit |-> popped \o tree.instances[id].children]
            ELSE DescendantsNext(tree, popped)

\* ------------------------------------------------------------------ state
\* op.iterations is the number of times the body of the work loop of
\* remove_instance or transplant ran in the call (0 for the other calls).
NoOp == [kind |-> "new", tree |-> "F", id |-> None, parent |-> None,
         payload |-> "-", result |-> "Unit", iterations |-> 0]
\* iter.id is the id descendants was called with; yielded lists the ids of the
\* instances next() has returned so far; ended says next() has returned None.
NoIter == [live |-> FALSE, tree |-> "F", id |-> None, ids_to_visit |-> <<>>,
           yielded |-> <<>>, ended |-> FALSE]

Init ==
    /\ trees = [t \in TreeNames |-> NewTree]
    /\ next_id = 1
    /\ transplants = 0
    /\ iter = NoIter
    /\ status = "running"
    /\ op = NoOp
    /\ pre = [t \in TreeNames |-> NewTree]

\* The ids the caller can name: those insert_instance has handed out.
IssuedIds == 1..(next_id - 1)
IssuedOptions == {None} \cup {Some(p) : p \in IssuedIds}

\* A live Descendants borrows its tree; the caller finishes with the iterator
\* (iter.live is FALSE again) before its next call on either tree.

\* trees[t].insert_instance(payload, parent_id)
InsertInstance(t, payload, parent_id) ==
    /\ status = "running"
    /\ ~iter.live
    /\ LET tree_instance == NewRootedInstance(payload, next_id, parent_id)
           r == InsertInstanceInternal(trees[t], tree_instance)
       IN /\ trees' = [trees EXCEPT ![t] = r.tree]
          /\ status' = IF r.ok THEN "running" ELSE "panicked"
          /\ op' = [kind |-> "insert_instance", tree |-> t, id |-> Some(next_id),
                    parent |-> parent_id, payload |-> payload,
                    result |-> IF r.ok THEN "Id" ELSE "panic", iterations |-> 0]
    /\ next_id' = next_id + 1
    /\ pre' = trees
    /\ UNCHANGED <<iter, transplants>>

\* trees[other] = trees[t].remove_instance(root_id), kept when it is Some
RemoveInstanceCall(t, root_id) ==
    /\ status = "running"
    /\ ~iter.live
    /\ LET r == RemoveInstance(trees[t], root_id)
           other == OtherTree(t)
       IN /\ trees' = IF r.result = "Some"
                      THEN [trees EXCEPT ![t] = r.self, ![other] = r.removed]
                      ELSE [trees EXCEPT ![t] = r.self]
          /\ status' = IF r.result = "panic" THEN "panicked" ELSE "running"
          /\ op' = [kind |-> "remove_instance", tree |-> t, id |-> Some(root_id),
                    parent |-> None, payload |-> "-", result |-> r.result,
                    iterations |-> r.iterations]
    /\ pre' = trees
    /\ UNCHANGED <<next_id, iter, transplants>>

\* trees[t].transplant(&mut trees[other], source_id, new_parent_id)
TransplantCall(t, source_id, new_parent_id) ==
    /\ status = "running"
    /\ ~iter.live
    /\ transplants < MaxTransplants
    /\ transplants' = transplants + 1
    /\ LET other == OtherTree(t)
           r == Transplant(trees[t], trees[other], source_id, new_parent_id)
       IN /\ trees' = [trees EXCEPT ![t] = r.self, ![other] = r.source]
          /\ status' = IF r.ok THEN "running" ELSE "panicked"
          /\ op' = [kind |-> "transplant", tree |-> t, id |-> Some(source_id),
                    parent |-> new_parent_id, payload |-> "-",
                    result |-> IF r.ok THEN "Unit" ELSE "panic",
                    iterations |-> r.iterations]
    /\ pre' = trees
    /\ UNCHANGED <<next_id, iter>>

\* iter = trees[t].descendants(id)
DescendantsCall(t, id) ==
    /\ status = "running"
    /\ ~iter.live
    /\ iter' = [live |-> TRUE, tree |-> t, id |-> Some(id), ids_to_visit |-> <<id>>,
                yielded |-> <<>>, ended |-> FALSE]
    /\ op' = [kind |-> "descendants", tree |-> t, id |-> Some(id),
              parent |-> None, payload |-> "-", result |-> "Descendants",
              iterations |-> 0]
    /\ pre' = trees
    /\ UNCHANGED <<trees, next_id, status, transplants>>

\* iter.next()
IterNext ==
    /\ status = "running"
    /\ iter.live
    /\ ~iter.ended
    /\ LET r == DescendantsNext(trees[iter.tree], iter.ids_to_visit)
       IN /\ iter' = [iter EXCEPT
                        !.ids_to_visit = r.ids_to_visit,
                        !.yielded = IF r.item # None
                                    THEN Append(@, Unwrap(r.item)) ELSE @,
                        !.ended = (r.item = None)]
          /\ op' = [kind |-> "next", tree |-> iter.tree, id |-> r.item,
                    parent |-> None, payload |-> "-",
                    result |-> IF r.item # None THEN "Some" ELSE "None",
                    iterations |-> 0]
    /\ pre' = trees
    /\ UNCHANGED <<trees, next_id, status, transplants>>

\* drop(iter): the borrow of the tree ends
IterDrop ==
    /\ status = "running"
    /\ iter.live
    /\ iter' = NoIter
    /\ op' = [kind |-> "drop", tree |-> iter.tree, id |-> None,
              parent |-> None, payload |-> "-", result |-> "Unit",
              iterations |-> 0]
    /\ pre' = trees
    /\ UNCHANGED <<trees, next_id, status, transplants>>

\* A caller that builds, takes apart and moves between the two trees.
Next ==
    \/ /\ next_id <= MaxIds
       /\ \E t \in TreeNames, parent_id \in IssuedOptions :
             InsertInstance(t, PayloadOfCall(next_id), parent_id)
    \/ \E t \in TreeNames, root_id \in IssuedIds : RemoveInstanceCall(t, root_id)
    \/ \E t \in TreeNames, source_id \in IssuedIds, new_parent_id \in IssuedOptions :
          TransplantCall(t, source_id, new_parent_id)

Spec == Init /\ [][Next]_vars

\* A caller that builds and takes apart the two trees and walks them with
\* descendants.
NextWalk ==
    \/ /\ next_id <= MaxWalkIds
       /\ \E t \in TreeNames, parent_id \in IssuedOptions :
             InsertInstance(t, PayloadOfCall(next_id), parent_id)
    \/ \E t \in TreeNames, root_id \in IssuedIds : RemoveInstanceCall(t, root_id)
    \/ \E t \in TreeNames, id \in IssuedIds : DescendantsCall(t, id)
    \/ IterNext
    \/ IterDrop

SpecWalk == Init /\ [][NextWalk]_vars

\* A caller that has the one tree F, made by RbxTree::new(), and only inserts
\* into it and removes from it; what remove_instance returns is kept aside in
\* G and never called.
NextBuild ==
    \/ /\ next_id <= MaxBuildIds
       /\ \E parent_id \in IssuedOptions :
             InsertInstance("F", PayloadOfCall(next_id), parent_id)
    \/ \E root_id \in IssuedIds : RemoveInstanceCall("F", root_id)

SpecBuild == Init /\ [][NextBuild]_vars

\* A caller that builds the two trees, moves instances between them with
\* transplant and walks them with descendants.
NextSkip ==
    \/ /\ next_id <= MaxIds
       /\ \E t \in TreeNames, parent_id \in IssuedOptions :
             InsertInstance(t, PayloadOfCall(next_id), parent_id)
    \/ \E t \in TreeNames, source_id \in IssuedIds, new_parent_id \in IssuedOptions :
          TransplantCall(t, source_id, new_parent_id)
    \/ \E t \in TreeNames, id \in IssuedIds : DescendantsCall(t, id)
    \/ IterNext
    \/ IterDrop

SpecSkip == Init /\ [][NextSkip]_vars

\* A caller that builds the tree F, walks it with descendants and takes it
\* apart, with remove_instance or with transplant into G.
NextTerm ==
    \/ /\ next_id <= MaxIds
       /\ \E parent_id \in IssuedOptions :
             InsertInstance("F", PayloadOfCall(next_id), parent_id)
    \/ \E root_id \in IssuedIds : RemoveInstanceCall("F", root_id)
    \/ \E source_id \in IssuedIds, new_parent_id \in IssuedOptions :
          TransplantCall("G", source_id, new_parent_id)
    \/ \E id \in IssuedIds : DescendantsCall("F", id)
    \/ IterNext
    \/ IterDrop

\* The caller of a Descendants that is alive and has not ended calls next()
\* again (a for loop over the iterator) unless it drops the iterator.
SpecTerm == Init /\ [][NextTerm]_vars /\ WF_vars(IterNext)

\* ------------------------------------------------- the forest invariants
Nodes(tree) == DOMAIN tree.instances
ChildSet(tree, id) == Range(tree.instances[id].children)

\* 1. a node's parent exists and lists it as a child
Invariant1(tree) ==
    \A id \in Nodes(tree) : \A p \in tree.instances[id].parent :
        p \in Nodes(tree) /\ id \in ChildSet(tree, p)
\* 2. a listed child exists and points back to its parent
Invariant2(tree) ==
    \A id \in Nodes(tree) : \A c \in ChildSet(tree, id) :
        c \in Nodes(tree) /\ tree.instances[c].parent = Some(id)
\* 3. roots is exactly the set of nodes without a parent
Invariant3(tree) ==
    tree.root_ids = {id \in Nodes(tree) : tree.instances[id].parent = None}
\* 4. child lists hold no duplicate and no dangling id
Invariant4(tree) ==
    \A id \in Nodes(tree) :
        LET children == tree.instances[id].children IN
        /\ \A i, j \in 1..Len(children) : children[i] = children[j] => i = j
        /\ Range(children) \subseteq Nodes(tree)

\* The ids the child lists reach from the ids in from, in at least one step.
RECURSIVE ReachedFrom(_, _, _)
ReachedFrom(tree, from, reached) ==
    LET step == UNION {ChildSet(tree, id) : id \in from \cap Nodes(tree)}
        fresh == step \ reached
    IN IF fresh = {} THEN reached
       ELSE ReachedFrom(tree, fresh, reached \cup fresh)
\* The transitive children of id present in the tree.
TransitiveChildren(tree, id) == ReachedFrom(tree, {id}, {}) \cap Nodes(tree)
Subtree(tree, id) == {id} \cup TransitiveChildren(tree, id)

\* 5. no node is its own ancestor
Invariant5(tree) == \A id \in Nodes(tree) : id \notin TransitiveChildren(tree, id)

WellFormed(tree) ==
    /\ Invariant1(tree) /\ Invariant2(tree) /\ Invariant3(tree)
    /\ Invariant4(tree) /\ Invariant5(tree)

\* The last call was kind on a running program and it returned.
Returned(kind) == op.kind = kind /\ status = "running"

\* ------------------------------------------------------------------ claims

\* C1: after any sequence of insert_instance, remove_instance and transplant
\* calls with valid arguments (none of them panicked), invariants 1-5 hold in
\* both trees.
C1_InvariantPreservation ==
    status = "running" => \A t \in TreeNames : WellFormed(trees[t])

\* C2: after self.transplant(source, source_id, p) on a well-formed source, the
\* source holds neither source_id nor any of its former transitive children,
\* and self holds them all, each reached from source_id by child lists.
C2_TransplantCompleteness ==
    (Returned("transplant") /\ WellFormed(pre[OtherTree(op.tree)])) =>
        LET self == trees[op.tree]
            source == trees[OtherTree(op.tree)]
            source_id == Unwrap(op.id)
            moved == Subtree(pre[OtherTree(op.tree)], source_id)
        IN /\ moved \cap Nodes(source) = {}
           /\ moved \subseteq Nodes(self)
           /\ moved \subseteq Subtree(self, source_id)

\* The nodes the last transplant took from the source tree into self.
MovedByTransplant ==
    (Nodes(trees[op.tree]) \ Nodes(pre[op.tree])) \cap Nodes(pre[OtherTree(op.tree)])

\* C3: every node transplant moved has in self the payload and the ordered
\* child list it had in the source, and every moved node but source_id keeps
\* its parent.
C3_TransplantKeepsShape ==
    Returned("transplant") =>
        \A n \in MovedByTransplant :
            LET before == pre[OtherTree(op.tree)].instances[n]
                after == trees[op.tree].instances[n]
            IN /\ after.instance = before.instance
               /\ after.children = before.children
               /\ (n # Unwrap(op.id) => after.parent = before.parent)

\* Same node set, same parent of every node, same ordered child list of every
\* node.
StructurallyEqual(a, b) ==
    /\ Nodes(a) = Nodes(b)
    /\ \A id \in Nodes(a) :
          /\ a.instances[id].parent = b.instances[id].parent
          /\ a.instances[id].children = b.instances[id].children

\* The call after a remove_instance(n) that returned Some puts the returned
\* tree's n back under the parent n had before the removal.
PutsBack ==
    /\ Returned("remove_instance")
    /\ op.result = "Some"
    /\ op'.kind = "transplant"
    /\ op'.tree = op.tree
    /\ op'.id = op.id
    /\ op'.parent = pre[op.tree].instances[Unwrap(op.id)].parent
    /\ status' = "running"

\* C4: on a well-formed forest, removed = F.remove_instance(n) followed by
\* F.transplant(removed, n, the parent n had) gives back a forest structurally
\* equal to the one before the removal.
C4_RoundTripRemoval ==
    [][(PutsBack /\ WellFormed(pre[op.tree])) =>
           StructurallyEqual(trees'[op.tree], pre[op.tree])]_vars

\* C5: remove_instance(root_id) on a present root_id returns a tree holding
\* exactly root_id and its transitive children, with roots {root_id}; the tree
\* it was called on then holds none of them, root_id is not among its roots
\* and not in the child list of its former parent.
C5_RemovePartitions ==
    (op.kind = "remove_instance" /\ op.id \subseteq Nodes(pre[op.tree])) =>
        LET root_id == Unwrap(op.id)
            before == pre[op.tree]
            after == trees[op.tree]
            returned == trees[OtherTree(op.tree)]
        IN /\ op.result = "Some"
           /\ Nodes(returned) = Subtree(before, root_id)
           /\ returned.root_ids = {root_id}
           /\ Nodes(after) \cap Subtree(before, root_id) = {}
           /\ root_id \notin after.root_ids
           /\ \A p \in before.instances[root_id].parent \cap Nodes(after) :
                  root_id \notin ChildSet(after, p)

\* The tree the iterator walks and the id it was started with.
Walked == trees[iter.tree]
WalkStart == Unwrap(iter.id)
NoDuplicates(seq) == \A i, j \in 1..Len(seq) : seq[i] = seq[j] => i = j

\* C6: on a well-formed forest and a present id, the sequence descendants(id)
\* has produced when it ends holds id and every transitive child of id, each
\* once, and nothing else.
C6_DescendantCoverage ==
    (/\ iter.live /\ iter.ended
     /\ WellFormed(Walked)
     /\ iter.id \subseteq Nodes(Walked)) =>
        /\ Range(iter.yielded) = Subtree(Walked, WalkStart)
        /\ NoDuplicates(iter.yielded)

\* A finished walk of a subtree of three nodes or more in a well-formed tree
\* that has a node outside the subtree.
C6_Witness ==
    /\ iter.live /\ iter.ended
    /\ WellFormed(Walked)
    /\ iter.id \subseteq Nodes(Walked)
    /\ Cardinality(Subtree(Walked, WalkStart)) >= 3
    /\ Nodes(Walked) \ Subtree(Walked, WalkStart) # {}

\* The depth-first pre-order walk from id that takes the children of every
\* node from the last of its child list to the first; an id that is not in
\* the tree contributes nothing.
RECURSIVE ReversePreorder(_, _)
RECURSIVE ReversePreorderOfChildren(_, _, _)
ReversePreorder(tree, id) ==
    IF id \notin Nodes(tree) THEN <<>>
    ELSE <<id>> \o ReversePreorderOfChildren(tree, tree.instances[id].children,
                                             Len(tree.instances[id].children))
ReversePreorderOfChildren(tree, children, last) ==
    IF last = 0 THEN <<>>
    ELSE ReversePreorder(tree, children[last])
             \o ReversePreorderOfChildren(tree, children, last - 1)

\* C7: for a present id, what descendants(id) has produced so far is always
\* the beginning of the reverse-child-order pre-order walk from id (so id
\* comes first, and a last child with its whole subtree before its earlier
\* siblings), and the whole of it once the sequence has ended.
C7_DescendantOrder ==
    (iter.live /\ iter.id \subseteq Nodes(Walked)) =>
        LET walk == ReversePreorder(Walked, WalkStart) IN
        /\ Len(iter.yielded) <= Len(walk)
        /\ iter.yielded = SubSeq(walk, 1, Len(iter.yielded))
        /\ iter.yielded # <<>> => iter.yielded[1] = WalkStart
        /\ iter.ended => iter.yielded = walk

\* A finished walk from a node with two children or more whose last child
\* has a child of its own.
C7_Witness ==
    /\ iter.live /\ iter.ended
    /\ iter.id \subseteq Nodes(Walked)
    /\ LET children == Walked.instances[WalkStart].children IN
       /\ Len(children) >= 2
       /\ Last(children) \in Nodes(Walked)
       /\ Walked.instances[Last(children)].children # <<>>
    /\ Len(iter.yielded) >= 4

\* C8: insert_instance(payload, Some(p)) with p present leaves p's child list
\* as it was with the new id added at the end, so the children inserted under
\* p stay in insertion order; insert_instance(payload, None) adds the new id
\* to roots.
C8_InsertOrder ==
    Returned("insert_instance") =>
        LET new_id == Unwrap(op.id) IN
        /\ \A p \in op.parent :
              trees[op.tree].instances[p].children =
                  Append(pre[op.tree].instances[p].children, new_id)
        /\ op.parent = None => new_id \in trees[op.tree].root_ids

\* An insertion under a parent that had a child already.
C8_Witness ==
    /\ Returned("insert_instance")
    /\ op.parent # None
    /\ pre[op.tree].instances[Unwrap(op.parent)].children # <<>>

\* C9: remove_instance(root_id) with root_id absent returns None and leaves
\* the tree (its mapping, every parent and child list, its roots) as it was.
C9_RemoveAbsent ==
    (op.kind = "remove_instance" /\ ~(op.id \subseteq Nodes(pre[op.tree]))) =>
        /\ op.result = "None"
        /\ status = "running"
        /\ trees = pre

\* A remove_instance of an absent id on a tree that holds nodes and roots.
C9_Witness ==
    /\ op.kind = "remove_instance"
    /\ ~(op.id \subseteq Nodes(pre[op.tree]))
    /\ Nodes(pre[op.tree]) # {}
    /\ pre[op.tree].root_ids # {}

\* C10: after self.transplant(source, source_id, new_parent_id), source_id's
\* parent in self is new_parent_id; with Some(p), source_id is the new last
\* element of p's child list and self's roots are as before; with None,
\* source_id has been added to self's roots.
C10_TransplantReparents ==
    Returned("transplant") =>
        LET source_id == Unwrap(op.id)
            self == trees[op.tree]
            before == pre[op.tree]
        IN /\ source_id \in Nodes(self)
           /\ self.instances[source_id].parent = op.parent
           /\ \A p \in op.parent :
                 /\ self.instances[p].children =
                        Append(before.instances[p].children, source_id)
                 /\ self.root_ids = before.root_ids
           /\ op.parent = None => self.root_ids = before.root_ids \cup {source_id}

\* A transplant under a parent that had a child already.
C10_Witness ==
    /\ Returned("transplant")
    /\ op.parent # None
    /\ pre[op.tree].instances[Unwrap(op.parent)].children # <<>>

\* C11: insert_instance changes no node that was there before it, but for the
\* one id appended to the parent's children: every other node keeps its
\* payload, parent and children, the parent keeps its payload and parent,
\* root_ids is as it was when parent_id is Some, the other tree is as it was,
\* and the id returned was not a key before the call.
C11_InsertFrame ==
    Returned("insert_instance") =>
        LET before == pre[op.tree]
            after == trees[op.tree]
            new_id == Unwrap(op.id)
        IN /\ new_id \notin Nodes(before)
           /\ \A t \in TreeNames : new_id \notin Nodes(pre[t])
           /\ Nodes(after) = Nodes(before) \cup {new_id}
           /\ \A id \in Nodes(before) :
                 /\ after.instances[id].instance = before.instances[id].instance
                 /\ after.instances[id].parent = before.instances[id].parent
                 /\ after.instances[id].id = before.instances[id].id
                 /\ after.instances[id].children =
                        IF op.parent = Some(id)
                        THEN Append(before.instances[id].children, new_id)
                        ELSE before.instances[id].children
           /\ op.parent # None => after.root_ids = before.root_ids
           /\ op.parent = None => after.root_ids = before.root_ids \cup {new_id}
           /\ trees[OtherTree(op.tree)] = pre[OtherTree(op.tree)]
\* An insert under a parent in a tree that holds a root and another node
\* besides the parent.
C11_Witness ==
    /\ Returned("insert_instance")
    /\ op.parent # None
    /\ Cardinality(Nodes(pre[op.tree])) >= 2
    /\ pre[op.tree].root_ids # {}
    /\ Len(pre[op.tree].instances[Unwrap(op.parent)].children) >= 1

\* C12: insert_instance(payload, Some(p)) with p absent from the tree panics
\* before it changes anything: at the panic both trees (map, child lists and
\* root_ids) are what they were before the call.
C12_InsertAbsentParent ==
    (/\ op.kind = "insert_instance"
     /\ op.parent # None
     /\ Unwrap(op.parent) \notin Nodes(pre[op.tree])) =>
        /\ status = "panicked"
        /\ op.result = "panic"
        /\ trees = pre
\* An insert under an absent parent into a tree that holds nodes.
C12_Witness ==
    /\ op.kind = "insert_instance"
    /\ op.parent # None
    /\ Unwrap(op.parent) \notin Nodes(pre[op.tree])
    /\ status = "panicked"
    /\ Nodes(pre[op.tree]) # {}

\* C13: transplant(source, source_id, Some(p)) with p absent from self panics
\* and leaves neither tree half changed: at the panic the source still holds
\* source_id and all its transitive children, self is as it was, and no node
\* of either tree is missing from both.
C13_TransplantAbsentParent ==
    (/\ op.kind = "transplant"
     /\ op.parent # None
     /\ Unwrap(op.parent) \notin Nodes(pre[op.tree])
     /\ Unwrap(op.id) \in Nodes(pre[OtherTree(op.tree)])) =>
        LET source_before == pre[OtherTree(op.tree)]
            source == trees[OtherTree(op.tree)]
        IN /\ status = "panicked"
           /\ Subtree(source_before, Unwrap(op.id)) \subseteq Nodes(source)
           /\ trees[op.tree] = pre[op.tree]
           /\ \A t \in TreeNames : \A id \in Nodes(pre[t]) :
                 \E u \in TreeNames : id \in Nodes(trees[u])

\* The tree the last remove_instance returned.
ReturnedTree == trees[OtherTree(op.tree)]

\* C14: the tree remove_instance returns satisfies invariants 1 and 3: its
\* root_ids {root_id} is the set of its nodes with parent None, so root_id has
\* parent None in it, and no node of it has a parent missing from its map,
\* also when root_id was not a root of the tree it was removed from.
C14_ReturnedTreeRoots ==
    (Returned("remove_instance") /\ op.result = "Some") =>
        /\ ReturnedTree.root_ids = {Unwrap(op.id)}
        /\ Invariant3(ReturnedTree)
        /\ ReturnedTree.instances[Unwrap(op.id)].parent = None
        /\ \A id \in Nodes(ReturnedTree) :
              ReturnedTree.instances[id].parent \subseteq Nodes(ReturnedTree)
        /\ Invariant1(ReturnedTree)

\* C15: remove_instance keeps the inside of the subtree it removes: every
\* node of the returned tree has the payload and the ordered children it had
\* before the call, and every one but root_id has the parent it had.
C15_RemoveKeepsSubtree ==
    (Returned("remove_instance") /\ op.result = "Some") =>
        /\ Unwrap(op.id) \in Nodes(ReturnedTree)
        /\ \A id \in Nodes(ReturnedTree) :
              /\ id \in Nodes(pre[op.tree])
              /\ ReturnedTree.instances[id].instance =
                     pre[op.tree].instances[id].instance
              /\ ReturnedTree.instances[id].id = id
              /\ ReturnedTree.instances[id].children =
                     pre[op.tree].instances[id].children
              /\ id # Unwrap(op.id) =>
                     ReturnedTree.instances[id].parent =
                         pre[op.tree].instances[id].parent
\* A removed node with a child came out with its child.
C15_Witness ==
    /\ Returned("remove_instance")
    /\ op.result = "Some"
    /\ pre[op.tree].instances[Unwrap(op.id)].children # <<>>
    /\ Cardinality(Nodes(ReturnedTree)) >= 2

\* seq without its i-th element.
WithoutIndex(seq, i) == SubSeq(seq, 1, i - 1) \o SubSeq(seq, i + 1, Len(seq))

\* C16: removing root_id, a child of p, takes exactly one element, root_id,
\* out of p's children and keeps the order of the others; every node outside
\* the removed subtree other than p is as it was, p keeps its payload and
\* parent, and root_ids changes only by losing root_id when root_id was a
\* root.
C16_RemoveFrame ==
    (Returned("remove_instance") /\ op.result = "Some") =>
        LET before == pre[op.tree]
            after == trees[op.tree]
            root_id == Unwrap(op.id)
            p == before.instances[root_id].parent
            removed == Nodes(ReturnedTree)
        IN /\ Nodes(after) = Nodes(before) \ removed
           /\ \A id \in Nodes(after) :
                 /\ after.instances[id].instance = before.instances[id].instance
                 /\ after.instances[id].parent = before.instances[id].parent
                 /\ after.instances[id].id = before.instances[id].id
                 /\ p # Some(id) =>
                        after.instances[id].children = before.instances[id].children
                 /\ p = Some(id) =>
                        \E i \in 1..Len(before.instances[id].children) :
                            /\ before.instances[id].children[i] = root_id
                            /\ after.instances[id].children =
                                   WithoutIndex(before.instances[id].children, i)
           /\ p # None => Unwrap(p) \in Nodes(after)
           /\ after.root_ids = IF p = None THEN before.root_ids \ {root_id}
                               ELSE before.root_ids
\* The first of three children was removed from its parent, and the two
\* that remain are in the order they had, in a tree that holds a node
\* outside the removed subtree other than the parent.
C16_Witness ==
    /\ Returned("remove_instance")
    /\ op.result = "Some"
    /\ pre[op.tree].instances[Unwrap(op.id)].parent # None
    /\ LET p == Unwrap(pre[op.tree].instances[Unwrap(op.id)].parent)
           before == pre[op.tree].instances[p].children
           after == trees[op.tree].instances[p].children
       IN /\ Len(before) >= 3
          /\ before[1] = Unwrap(op.id)
          /\ Len(after) >= 2
          /\ after[1] = before[2]
          /\ after[2] = before[3]

\* C17: with insert_instance and remove_instance alone (no transplant),
\* starting from the empty tree, invariants 1-5 hold in the tree the calls are
\* made on after any sequence of calls that did not panic.
C17_InsertRemoveInvariants ==
    status = "running" => WellFormed(trees["F"])
\* A node with a child and a parent was removed and left nodes behind.
C17_Witness ==
    /\ Returned("remove_instance")
    /\ op.result = "Some"
    /\ op.tree = "F"
    /\ pre["F"].instances[Unwrap(op.id)].parent # None
    /\ pre["F"].instances[Unwrap(op.id)].children # <<>>
    /\ Nodes(trees["F"]) # {}

\* C18: after a transplant that returned, the source tree, well-formed
\* before the call, still satisfies invariants 1-4: source_id is in no child
\* list of the source, the source's root_ids has no id missing from its map,
\* and no node left in it has a parent missing from its map.
C18_TransplantSourceInvariants ==
    (Returned("transplant") /\ WellFormed(pre[OtherTree(op.tree)])) =>
        LET source == trees[OtherTree(op.tree)] IN
        /\ \A id \in Nodes(source) : Unwrap(op.id) \notin ChildSet(source, id)
        /\ source.root_ids \subseteq Nodes(source)
        /\ \A id \in Nodes(source) : source.instances[id].parent \subseteq Nodes(source)
        /\ Invariant1(source) /\ Invariant2(source)
        /\ Invariant3(source) /\ Invariant4(source)

\* The positions of ids_to_visit whose id is a key of the walked tree.
Resolvable == {i \in 1..Len(iter.ids_to_visit) : iter.ids_to_visit[i] \in Nodes(Walked)}
\* The topmost of them: the one next() reaches first.
TopResolvable == CHOOSE i \in Resolvable : \A j \in Resolvable : j <= i

\* What one call of next() does to the iterator: ids that are not in the tree
\* are popped and passed over; the first one that is in the tree is returned;
\* None is returned only once the stack has run empty.
NextSkipsUnresolved ==
    op'.kind = "next" =>
        IF Resolvable = {}
        THEN /\ op'.result = "None"
             /\ iter'.ended
             /\ iter'.yielded = iter.yielded
             /\ iter'.ids_to_visit = <<>>
        ELSE /\ op'.result = "Some"
             /\ ~iter'.ended
             /\ iter'.yielded = Append(iter.yielded, iter.ids_to_visit[TopResolvable])
             /\ iter'.ids_to_visit =
                    SubSeq(iter.ids_to_visit, 1, TopResolvable - 1)
                        \o Walked.instances[iter.ids_to_visit[TopResolvable]].children

\* C19: descendants passes over ids that are not in the tree instead of
\* stopping at them: descendants(id) for an absent id yields nothing, next()
\* that pops an absent id goes on to the ids left on the stack, and the
\* sequence has ended only with the stack empty.
C19_SkipsUnresolved ==
    /\ [](iter.live /\ WalkStart \notin Nodes(Walked) => iter.yielded = <<>>)
    /\ [](iter.live /\ iter.ended => iter.ids_to_visit = <<>>)
    /\ [][NextSkipsUnresolved]_vars
\* A walk from a node whose last child is not in the tree (it was
\* transplanted away) went on to an earlier child and ended.
C19_Witness ==
    /\ iter.live
    /\ iter.ended
    /\ WalkStart \in Nodes(Walked)
    /\ LET children == Walked.instances[WalkStart].children IN
          /\ Len(children) >= 2
          /\ Last(children) \notin Nodes(Walked)
          /\ children[1] \in Nodes(Walked)
          /\ children[1] \in Range(iter.yielded)

\* The number of nodes of the subtree the walk started at.
WalkSize == IF WalkStart \in Nodes(Walked)
            THEN Cardinality(Subtree(Walked, WalkStart)) ELSE 0

\* C20: on well-formed trees the work loops of remove_instance and transplant
\* come to an empty to-visit stack after finitely many runs of their body (no
\* more than one per node of the subtree they were given), and a descendants
\* walk comes to its end, having yielded exactly as many instances as the
\* subtree has nodes.
C20_Termination ==
    /\ []((Returned("remove_instance") /\ op.result = "Some"
              /\ WellFormed(pre[op.tree])) =>
            op.iterations = Cardinality(Subtree(pre[op.tree], Unwrap(op.id))))
    /\ []((Returned("transplant") /\ WellFormed(pre[OtherTree(op.tree)])) =>
            /\ op.iterations >= 1
            /\ op.iterations <=
                   Cardinality(Subtree(pre[OtherTree(op.tree)], Unwrap(op.id))))
    /\ []((iter.live /\ WellFormed(Walked)) => Len(iter.yielded) <= WalkSize)
    /\ []((iter.live /\ iter.ended /\ WellFormed(Walked)) =>
            Len(iter.yielded) = WalkSize)
    /\ ((iter.live /\ WellFormed(Walked)) ~> (iter.ended \/ ~iter.live))
\* A walk of a well-formed subtree of three nodes has ended after three
\* instances.
C20_Witness ==
    /\ iter.live
    /\ iter.ended
    /\ WellFormed(Walked)
    /\ WalkSize >= 3
    /\ Len(iter.yielded) = 3

====
